---- MODULE Spec2Model ----
(***************************************************************************)
(* State-machine model of smact/data_loader.py: the module-level caches of *)
(* the element datasets, the lazy loaders that fill them on first lookup,  *)
(* the lookup functions and the ToggleWarnings switch.                     *)
(*                                                                         *)
(* Conventions.                                                            *)
(*  - A float is modelled by the integer number of tenths (1.6 is 16).     *)
(*  - A raw text line is a sequence of tokens in which " " stands for a    *)
(*    run of whitespace; a CSV row is the sequence of its fields.          *)
(*  - A Python object with identity (list, dict) lives in `heap` under an  *)
(*    identifier; the caches hold identifiers of such objects.             *)
(*  - A Python dict is a function whose domain is its key set.             *)
(***************************************************************************)
EXTENDS Integers, Sequences, FiniteSets, TLC

VARIABLES
    PrintWarnings,  \* the module-level switch _PrintWarnings
    cache,          \* the module-level caches, keyed by the name of the global
    heap,           \* the lists and dicts created by the loaders and the copies
    files,          \* the data directory: the content of each backing file
    opens,          \* per dataset, how often open() was called on its file
    held,           \* identifiers of the objects the lookups have returned
    allocs,         \* number of objects allocated so far for copies
    call,           \* the last call made: function, arguments, outcome
    out,            \* what the last call printed
    steps,          \* number of calls made so far
    threads         \* per thread, the lookup it is in and the statement it is at

vars ==
    <<PrintWarnings, cache, heap, files, opens, held, allocs, call, out, steps, threads>>

\* Longest sequence of calls explored.
MaxSteps == 3

-----------------------------------------------------------------------------
(* The globals of the module and the lookups that own them.                *)

OxidationStates == "_ElementOxidationStates"
CrustalAbundances == "_ElementCrustalAbundances"
HHIs == "_ElementHHIs"
OpenBabelDerivedData == "_ElementOpenBabelDerivedData"
Eigenvalues == "_ElementEigenvalues"
SEigenvalues == "_ElementSEigenvalues"
ShannonRadiiData == "_ElementShannonRadiiData"
SSEData == "_ElementSSEData"
SSE2015Data == "_ElementSSE2015Data"
SSEPaulingData == "_ElementSSEPaulingData"

Datasets ==
    {OxidationStates, CrustalAbundances, HHIs, OpenBabelDerivedData, Eigenvalues,
     SEigenvalues, ShannonRadiiData, SSEData, SSE2015Data, SSEPaulingData}

\* The file each loader opens.
FileName(d) ==
    CASE d = OxidationStates -> "oxidation_states.txt"
      [] d = CrustalAbundances -> "crustal_abundance.txt"
      [] d = HHIs -> "HHIs.txt"
      [] d = OpenBabelDerivedData -> "element.txt"
      [] d = Eigenvalues -> "Eigenvalues.csv"
      [] d = SEigenvalues -> "Eigenvalues_s.csv"
      [] d = ShannonRadiiData -> "shannon_radii.csv"
      [] d = SSEData -> "SSE.csv"
      [] d = SSE2015Data -> "SSE_2015.csv"
      [] d = SSEPaulingData -> "SSE_Pauling.csv"

\* The loaders that read their file line by line with strip() and split().
WhitespaceDatasets == {OxidationStates, CrustalAbundances, HHIs, OpenBabelDerivedData}

\* The loaders named as skipping a header row where SSE_2015.csv is read as
\* a file with a header.
HeaderDatasetsWithSSE2015 ==
    {Eigenvalues, SEigenvalues, ShannonRadiiData, SSE2015Data}

\* The loaders that call next(reader) before their loop.
HeaderDatasets == {Eigenvalues, SEigenvalues, ShannonRadiiData}

\* The global the loop body of d's loader assigns into.
LoopTarget(d) == IF d = SEigenvalues THEN Eigenvalues ELSE d

\* The lookups with a copy parameter.
CopyDatasets == {OxidationStates, OpenBabelDerivedData, ShannonRadiiData, SSE2015Data}

\* The datasets whose cache values are objects with identity (lists, dicts).
ObjectDatasets == CopyDatasets \cup {SSEData, SSEPaulingData}

\* The datasets whose cache values are lists of dicts.
ListOfDictDatasets == {ShannonRadiiData, SSE2015Data}

-----------------------------------------------------------------------------
(* Values: None, the caches, the outcome of a call.                        *)

EmptyDict == <<>>

\* A global is None or a dict.
NoneValue == [none |-> TRUE, dict |-> EmptyDict]
DictValue(m) == [none |-> FALSE, dict |-> m]

\* d[k] = v on a dict.
SetItem(m, k, v) == [x \in DOMAIN m \cup {k} |-> IF x = k THEN v ELSE m[x]]

\* What a call returns or raises.  t is the shape of the payload v.
ReturnNone == [kind |-> "return", t |-> "None", v |-> 0]
ReturnFloat(x) == [kind |-> "return", t |-> "float", v |-> x]
ReturnTuple(x) == [kind |-> "return", t |-> "tuple", v |-> x]
ReturnObject(id) == [kind |-> "return", t |-> "object", v |-> id]
Raise(e) == [kind |-> "raise", t |-> e, v |-> 0]

-----------------------------------------------------------------------------
(* int() and float() on the tokens that occur in the files.                *)

IntTable ==
    ("1" :> 1) @@ ("2" :> 2) @@ ("3" :> 3) @@ ("4" :> 4) @@ ("6" :> 6) @@ ("-2" :> -2)
    @@ ("8" :> 8) @@ ("26" :> 26)

FloatTable ==
    ("1" :> 10) @@ ("2" :> 20) @@ ("3" :> 30) @@ ("4" :> 40) @@ ("6" :> 60) @@ ("-2" :> -20)
    @@ ("8" :> 80) @@ ("26" :> 260)
    @@ ("0.0" :> 0) @@ ("1.6" :> 16) @@ ("2.5" :> 25) @@ ("0.7" :> 7) @@ ("-1.5" :> -15)

\* First character of a token is '#'.
HashTokens == {"#", "#Fe", "#note"}

\* line.strip(): drop the whitespace at both ends.
RECURSIVE LStrip(_)
LStrip(line) ==
    IF line # <<>> /\ Head(line) = " " THEN LStrip(Tail(line)) ELSE line

RECURSIVE RStrip(_)
RStrip(line) ==
    IF line # <<>> /\ line[Len(line)] = " "
    THEN RStrip(SubSeq(line, 1, Len(line) - 1))
    ELSE line

Strip(line) == RStrip(LStrip(line))

\* line.split(): the tokens between runs of whitespace.
Split(line) == SelectSeq(line, LAMBDA t : t # " ")

\* items[k] with Python's zero-based index.
Item(items, k) == items[k + 1]


-----------------------------------------------------------------------------
(* Field accesses of a loop body, in the order Python evaluates them.      *)

\* One access: items[idx] used as a string, or passed to int() or float().
Access(idx, type) == [idx |-> idx, type |-> type]

\* The exception the access raises on items, "" if none.
AccessError(items, acc) ==
    IF acc.idx >= Len(items) THEN "IndexError"
    ELSE IF acc.type = "int" /\ Item(items, acc.idx) \notin DOMAIN IntTable THEN "ValueError"
    ELSE IF acc.type = "float" /\ Item(items, acc.idx) \notin DOMAIN FloatTable THEN "ValueError"
    ELSE ""

\* The accesses of the open-Babel loop body (lines 193-259).
OpenBabelAccesses ==
    <<Access(1, "str"), Access(0, "int"), Access(2, "float"), Access(3, "float"),
      Access(3, "float"), Access(4, "float"), Access(5, "float"), Access(6, "int"),
      Access(7, "float"), Access(8, "float"), Access(9, "float"), Access(10, "float"),
      Access(11, "float"), Access(12, "float"), Access(13, "float"), Access(14, "str")>>

\* The accesses of d's loop body on a row; the right-hand side of an
\* assignment is evaluated before the subscript of its target.
Accesses(d, items) ==
    CASE d = OxidationStates ->
            [k \in 1..(Len(items) - 1) |-> Access(k, "int")] \o <<Access(0, "str")>>
      [] d = CrustalAbundances -> <<Access(1, "float"), Access(0, "str")>>
      [] d = HHIs -> <<Access(1, "float"), Access(2, "float"), Access(0, "str")>>
      [] d = OpenBabelDerivedData -> OpenBabelAccesses
      [] d = Eigenvalues -> <<Access(1, "float"), Access(0, "str")>>
      [] d = SEigenvalues -> <<Access(1, "float"), Access(0, "str")>>
      [] d = ShannonRadiiData ->
            <<Access(0, "str"), Access(1, "int"), Access(2, "str"), Access(3, "float"),
              Access(4, "float"), Access(5, "str")>>
      [] d = SSEData ->
            <<Access(1, "int"), Access(2, "float"), Access(3, "float"), Access(4, "float"),
              Access(5, "float"), Access(6, "float"), Access(0, "str")>>
      [] d = SSE2015Data -> <<Access(0, "str"), Access(1, "int"), Access(2, "float")>>
      [] d = SSEPaulingData -> <<Access(1, "float"), Access(0, "str")>>

\* Position of the first access that raises, 0 if none does.
FirstBad(items, accs) ==
    LET bad == {p \in 1..Len(accs) : AccessError(items, accs[p]) # ""}
    IN IF bad = {} THEN 0 ELSE CHOOSE p \in bad : \A q \in bad : p <= q

-----------------------------------------------------------------------------
(* Warnings.                                                               *)

\* A printed warning: its kind, the dataset and the element it names.
Warning(w, d, el) == [w |-> w, ds |-> d, el |-> el]

\* The sentinel tests with another default for the covalent radius.
SentinelChecksOtherRadius ==
    <<[pos |-> 4, idx |-> 3, default |-> 20, w |-> "RCov"],
      [pos |-> 10, idx |-> 8, default |-> 0, w |-> "ElNeg."],
      [pos |-> 11, idx |-> 9, default |-> 0, w |-> "Ionization"],
      [pos |-> 12, idx |-> 10, default |-> 0, w |-> "ElAffinity"]>>

\* The sentinel tests of the open-Babel loop body: after which access each
\* is made, the field tested and the default value it is compared with.
SentinelChecks ==
    <<[pos |-> 4, idx |-> 3, default |-> 16, w |-> "RCov"],
      [pos |-> 10, idx |-> 8, default |-> 0, w |-> "ElNeg."],
      [pos |-> 11, idx |-> 9, default |-> 0, w |-> "Ionization"],
      [pos |-> 12, idx |-> 10, default |-> 0, w |-> "ElAffinity"]>>

\* The sentinel warnings printed without the test of _PrintWarnings.
SentinelWarningsAlways(enabled, items, done) ==
    LET hit(c) == /\ c.pos <= done
                  /\ FloatTable[Item(items, c.idx)] = c.default
        pick == SelectSeq(SentinelChecks, hit)
    IN [k \in 1..Len(pick) |-> Warning(pick[k].w, OpenBabelDerivedData, Item(items, 1))]

\* What the open-Babel loop body prints for a row whose first `done`
\* accesses succeed, _PrintWarnings having the value `enabled`.
SentinelWarnings(enabled, items, done) ==
    LET hit(c) == /\ enabled
                  /\ c.pos <= done
                  /\ FloatTable[Item(items, c.idx)] = c.default
        pick == SelectSeq(SentinelChecks, hit)
    IN [k \in 1..Len(pick) |-> Warning(pick[k].w, OpenBabelDerivedData, Item(items, 1))]

\* A not-found warning printed only by the call that loads the dataset.
NotFoundWarningOnLoad(d, symbol) ==
    IF PrintWarnings /\ cache[d].none THEN <<Warning("not found", d, symbol)>> ELSE <<>>

\* The else branch of every lookup: the warning printed for a missing symbol.
NotFoundWarning(d, symbol) ==
    IF PrintWarnings THEN <<Warning("not found", d, symbol)>> ELSE <<>>

-----------------------------------------------------------------------------
(* Objects.  An identifier says who created the object (a loader while     *)
(* parsing a row of its file, or a copying return statement) and what the  *)
(* object is: a list of ints, a dict, or a list of dicts.                  *)

ObjectId(d, n, k) == [ds |-> d, n |-> n, k |-> k]

\* The n-th object created by the copying return statements.
CopyId(n, k) == ObjectId("copy", n, k)

\* h with a new or updated object.
Put(h, id, v) == [x \in DOMAIN h \cup {id} |-> IF x = id THEN v ELSE h[x]]

\* The float and int conversions of a row that parsed.
FloatOf(items, k) == FloatTable[Item(items, k)]
IntOf(items, k) == IntTable[Item(items, k)]

\* The dict built from a row of element.txt (lines 195-259).
OpenBabelDataset(items) ==
    [x \in {"Number", "ARENeg", "RCov", "RBO", "RVdW", "MaxBnd", "Mass", "ElNeg.",
            "Ionization", "ElAffinity", "RGB", "Name"} |->
        CASE x = "Number" -> IntOf(items, 0)
          [] x = "ARENeg" -> FloatOf(items, 2)
          [] x = "RCov" -> FloatOf(items, 3)
          [] x = "RBO" -> FloatOf(items, 4)
          [] x = "RVdW" -> FloatOf(items, 5)
          [] x = "MaxBnd" -> IntOf(items, 6)
          [] x = "Mass" -> FloatOf(items, 7)
          [] x = "ElNeg." -> FloatOf(items, 8)
          [] x = "Ionization" -> FloatOf(items, 9)
          [] x = "ElAffinity" -> FloatOf(items, 10)
          [] x = "RGB" -> <<FloatOf(items, 11), FloatOf(items, 12), FloatOf(items, 13)>>
          [] x = "Name" -> Item(items, 14)]

\* The dict built from a row of shannon_radii.csv (lines 386-392).
ShannonDataset(row) ==
    [x \in {"charge", "coordination", "crystal_radius", "ionic_radius", "comment"} |->
        CASE x = "charge" -> IntOf(row, 1)
          [] x = "coordination" -> Item(row, 2)
          [] x = "crystal_radius" -> FloatOf(row, 3)
          [] x = "ionic_radius" -> FloatOf(row, 4)
          [] x = "comment" -> Item(row, 5)]

\* The dict built from a row of SSE.csv (lines 439-446).
SSEDataset(row) ==
    [x \in {"AtomicNumber", "SolidStateEnergy", "IonisationPotential", "ElectronAffinity",
            "MullikenElectronegativity", "SolidStateRenormalisationEnergy"} |->
        CASE x = "AtomicNumber" -> IntOf(row, 1)
          [] x = "SolidStateEnergy" -> FloatOf(row, 2)
          [] x = "IonisationPotential" -> FloatOf(row, 3)
          [] x = "ElectronAffinity" -> FloatOf(row, 4)
          [] x = "MullikenElectronegativity" -> FloatOf(row, 5)
          [] x = "SolidStateRenormalisationEnergy" -> FloatOf(row, 6)]

\* The dict built from a row of SSE_2015.csv (lines 489-491).
SSE2015Dataset(row) ==
    [x \in {"OxidationState", "SolidStateEnergy2015"} |->
        IF x = "OxidationState" THEN IntOf(row, 1) ELSE FloatOf(row, 2)]

\* The dict built from a row of SSE_Pauling.csv (lines 535-536).
SSEPaulingDataset(row) == [x \in {"SolidStateEnergyPauling"} |-> FloatOf(row, 1)]

-----------------------------------------------------------------------------
(* The loaders.  A loader state st holds the globals, the heap, what has   *)
(* been printed, the exception raised so far ("" if none), whether open()  *)
(* was called and the value of _PrintWarnings the loop body reads.         *)

\* cache[key] = v in the global g of a loader state.
Assign(st, g, key, v) ==
    [st EXCEPT !.cache[g] = DictValue(SetItem(st.cache[g].dict, key, v))]

\* cache.setdefault(key, <new object>): the object of an earlier row stays.
AssignObjectOnce(st, g, key, id, v) ==
    IF key \in DOMAIN st.cache[g].dict THEN st
    ELSE Assign([st EXCEPT !.heap = Put(st.heap, id, v)], g, key, id)

\* cache[key] = <new object> in the global g.
AssignObject(st, g, key, id, v) ==
    Assign([st EXCEPT !.heap = Put(st.heap, id, v)], g, key, id)

\* The if/else with insert(0, dataset) in place of append(dataset).
AppendDatasetInFront(st, g, key, i, v) ==
    LET id == ObjectId(g, i, "dict")
        h == Put(st.heap, id, v)
    IN IF key \in DOMAIN st.cache[g].dict
       THEN LET list == st.cache[g].dict[key]
            IN [st EXCEPT !.heap = Put(h, list, <<id>> \o h[list])]
       ELSE AssignObject([st EXCEPT !.heap = h], g, key, ObjectId(g, i, "dicts"), <<id>>)

\* The if/else that appends a dataset to the list of its key or starts a new
\* list (lines 394-397 and 493-496).
AppendDataset(st, g, key, i, v) ==
    LET id == ObjectId(g, i, "dict")
        h == Put(st.heap, id, v)
    IN IF key \in DOMAIN st.cache[g].dict
       THEN LET list == st.cache[g].dict[key]
            IN [st EXCEPT !.heap = Put(h, list, Append(h[list], id))]
       ELSE AssignObject([st EXCEPT !.heap = h], g, key, ObjectId(g, i, "dicts"), <<id>>)

\* The assignments of d's loop body on the i-th row of the file, all of
\* whose accesses succeed.
Store(d, items, i, st) ==
    CASE d = OxidationStates ->
            AssignObject(st, d, Item(items, 0), ObjectId(d, i, "ints"),
                         [k \in 1..(Len(items) - 1) |-> IntOf(items, k)])
      [] d = CrustalAbundances -> Assign(st, d, Item(items, 0), FloatOf(items, 1))
      [] d = HHIs -> Assign(st, d, Item(items, 0), <<FloatOf(items, 1), FloatOf(items, 2)>>)
      [] d = OpenBabelDerivedData ->
            AssignObject(st, d, Item(items, 1), ObjectId(d, i, "dict"), OpenBabelDataset(items))
      [] d = Eigenvalues -> Assign(st, Eigenvalues, Item(items, 0), FloatOf(items, 1))
      [] d = SEigenvalues -> Assign(st, Eigenvalues, Item(items, 0), FloatOf(items, 1))
      [] d = ShannonRadiiData -> AppendDataset(st, d, Item(items, 0), i, ShannonDataset(items))
      [] d = SSEData ->
            AssignObject(st, d, Item(items, 0), ObjectId(d, i, "dict"), SSEDataset(items))
      [] d = SSE2015Data -> AppendDataset(st, d, Item(items, 0), i, SSE2015Dataset(items))
      [] d = SSEPaulingData ->
            AssignObject(st, d, Item(items, 0), ObjectId(d, i, "dict"), SSEPaulingDataset(items))

\* The loop body with a "continue" after a printed sentinel warning: a row
\* that was warned about is not stored.
ParseRowSkippingWarned(d, items, i, st) ==
    LET accs == Accesses(d, items)
        bad == FirstBad(items, accs)
        done == IF bad = 0 THEN Len(accs) ELSE bad - 1
        printed == IF d = OpenBabelDerivedData
                   THEN SentinelWarnings(st.warn, items, done)
                   ELSE <<>>
        st1 == [st EXCEPT !.out = @ \o printed]
    IN IF bad # 0 THEN [st1 EXCEPT !.err = AccessError(items, accs[bad])]
       ELSE IF st1.cache[LoopTarget(d)].none THEN [st1 EXCEPT !.err = "TypeError"]
       ELSE IF printed # <<>> THEN st1
       ELSE Store(d, items, i, st1)

\* The loop body on the split row: the accesses in order, the sentinel
\* warnings printed on the way, then the assignment, which raises TypeError
\* when the global assigned into is None.
ParseRow(d, items, i, st) ==
    LET accs == Accesses(d, items)
        bad == FirstBad(items, accs)
        done == IF bad = 0 THEN Len(accs) ELSE bad - 1
        st1 == IF d = OpenBabelDerivedData
               THEN [st EXCEPT !.out = @ \o SentinelWarnings(st.warn, items, done)]
               ELSE st
    IN IF bad # 0 THEN [st1 EXCEPT !.err = AccessError(items, accs[bad])]
       ELSE IF st1.cache[LoopTarget(d)].none THEN [st1 EXCEPT !.err = "TypeError"]
       ELSE Store(d, items, i, st1)

\* The iteration with the test "if line and line[0] != '#'": a blank line
\* is passed over.
LoadRowSkippingBlank(d, line, i, st) ==
    IF d \in WhitespaceDatasets
    THEN LET stripped == Strip(line)
         IN IF stripped = <<>> THEN st
            ELSE IF Head(stripped) \in HashTokens THEN st
            ELSE ParseRow(d, Split(stripped), i, st)
    ELSE ParseRow(d, line, i, st)

\* One iteration of the loop over the file.  The whitespace loaders strip
\* the line, test its first character and split it.
LoadRow(d, line, i, st) ==
    IF d \in WhitespaceDatasets
    THEN LET stripped == Strip(line)
         IN IF stripped = <<>> THEN [st EXCEPT !.err = "IndexError"]
            ELSE IF Head(stripped) \in HashTokens THEN st
            ELSE ParseRow(d, Split(stripped), i, st)
    ELSE ParseRow(d, line, i, st)

\* The loop from row i on; an exception ends it.
RECURSIVE LoadRows(_, _, _, _)
LoadRows(d, rows, i, st) ==
    IF i > Len(rows) \/ st.err # "" THEN st
    ELSE LoadRows(d, rows, i + 1, LoadRow(d, rows[i], i, st))

\* The loader state in which a lookup finds the globals, _PrintWarnings
\* having the value `enabled`.
Entering(enabled) ==
    [cache |-> cache, heap |-> heap, out |-> <<>>, err |-> "", opened |-> 0, warn |-> enabled]

\* "<global> = {}", the first statement of the body of "if <global> == None".
Loading(d, enabled) ==
    [Entering(enabled) EXCEPT !.cache[d] = DictValue(EmptyDict), !.opened = 1]

\* The rest of that body: the file is opened, the header is skipped and the
\* rows are read.
LoadFile(d, st) ==
    LET rows == files[d].rows
    IN IF ~files[d].exists THEN [st EXCEPT !.err = "IOError"]
       ELSE IF d \in HeaderDatasets
            THEN IF rows = <<>> THEN [st EXCEPT !.err = "StopIteration"]
                 ELSE LoadRows(d, rows, 2, st)
            ELSE LoadRows(d, rows, 1, st)

\* The body of "if <global> == None".
Load(d) == LoadFile(d, Loading(d, PrintWarnings))

\* The test written "if not <global>", which is also true of an empty dict.
EnsureLoadedIfEmpty(d) ==
    IF cache[d].none \/ cache[d].dict = EmptyDict THEN Load(d)
    ELSE Entering(PrintWarnings)

\* The test "if <global> == None" that starts every lookup.
EnsureLoaded(d) ==
    IF cache[d].none THEN Load(d)
    ELSE Entering(PrintWarnings)

-----------------------------------------------------------------------------
(* The return statements of the lookups.                                   *)

\* What a return statement yields: the heap after it, the object returned
\* and the number of objects it allocated.
Returned(h, id, used) == [heap |-> h, id |-> id, used |-> used]

\* A new list with the same ints (line 82), a new dict with the same values
\* (dict.copy(), line 268).
CopyContainer(h, id, n) ==
    LET new == CopyId(n + 1, id.k)
    IN Returned(Put(h, new, h[id]), new, 1)

\* A copy of the list alone, list(<cached list>): the dicts stay shared.
CopyListOnly(h, id, n) ==
    LET new == CopyId(n + 1, "dicts")
    IN Returned(Put(h, new, h[id]), new, 1)

\* [item.copy() for item in <cached list>] (lines 404 and 500): a new list
\* of new dicts.
CopyListOfDicts(h, id, n) ==
    LET list == h[id]
        new == CopyId(n + 1, "dicts")
        item(j) == CopyId(n + 1 + j, "dict")
        items == [j \in 1..Len(list) |-> item(j)]
        added == {new} \cup {item(j) : j \in 1..Len(list)}
    IN Returned([x \in DOMAIN h \cup added |->
                    IF x = new THEN items
                    ELSE IF x \in added
                         THEN h[list[CHOOSE j \in 1..Len(list) : item(j) = x]]
                         ELSE h[x]],
                new, 1 + Len(list))

\* The "if copy:" branch of the four lookups that take the flag.
Copied(h, id, n) ==
    IF id.k = "dicts" THEN CopyListOfDicts(h, id, n) ELSE CopyContainer(h, id, n)

\* A return statement that copies although the caller asked for the cached
\* object.
ReferencedButCopied(h, id, n) == Copied(h, id, n)

\* "return <cached object>" (lines 84, 270, 406, 451, 502, 541).
Referenced(h, id, n) == Returned(h, id, 0)

-----------------------------------------------------------------------------
(* The calls.                                                              *)

\* The record of a step of the caller.
Call(fn, d, symbol, copy, loaded, res) ==
    [fn |-> fn, ds |-> d, symbol |-> symbol, copy |-> copy, loaded |-> loaded, res |-> res]

\* The symbols the caller asks for.
Symbols == {"Fe", "O", "Xx"}

\* A lookup of symbol in dataset d: load if the global is None, then answer
\* from the dict.  An exception of the loader propagates to the caller and
\* leaves the globals as the loader left them.
Lookup(fn, d, symbol, copy) ==
    /\ steps < MaxSteps
    /\ \E st \in {EnsureLoaded(d)} :
        LET m == st.cache[d].dict
            found == st.err = "" /\ symbol \in DOMAIN m
        IN \E ret \in {IF ~found \/ d \notin ObjectDatasets
                       THEN Returned(st.heap, ObjectId("", 0, ""), 0)
                       ELSE IF copy THEN Copied(st.heap, m[symbol], allocs)
                       ELSE Referenced(st.heap, m[symbol], allocs)} :
            LET res == IF st.err # "" THEN Raise(st.err)
                       ELSE IF ~found THEN ReturnNone
                       ELSE IF d \in ObjectDatasets THEN ReturnObject(ret.id)
                       ELSE IF d = HHIs THEN ReturnTuple(m[symbol])
                       ELSE ReturnFloat(m[symbol])
                printed == IF st.err = "" /\ ~found THEN NotFoundWarning(d, symbol) ELSE <<>>
            IN /\ cache' = st.cache
               /\ heap' = ret.heap
               /\ opens' = [opens EXCEPT ![d] = @ + st.opened]
               /\ held' = IF res.t = "object"
                          THEN held \cup {[id |-> ret.id, copy |-> copy]}
                          ELSE held
               /\ allocs' = allocs + ret.used
               /\ call' = Call(fn, d, symbol, copy, st.opened = 1, res)
               /\ out' = st.out \o printed
    /\ steps' = steps + 1
    /\ UNCHANGED <<PrintWarnings, files, threads>>

ToggleWarnings(enable) ==
    /\ steps < MaxSteps
    /\ PrintWarnings' = enable
    /\ call' = Call("ToggleWarnings", "", "", enable, FALSE, ReturnNone)
    /\ out' = <<>>
    /\ steps' = steps + 1
    /\ UNCHANGED <<cache, heap, files, opens, held, allocs, threads>>

LookupElementOxidationStates(symbol, copy) ==
    Lookup("LookupElementOxidationStates", OxidationStates, symbol, copy)

LookupElementCrustalAbundance(symbol) ==
    Lookup("LookupElementCrustalAbundance", CrustalAbundances, symbol, FALSE)

LookupElementHHIs(symbol) ==
    Lookup("LookupElementHHIs", HHIs, symbol, FALSE)

LookupElementOpenBabelDerivedData(symbol, copy) ==
    Lookup("LookupElementOpenBabelDerivedData", OpenBabelDerivedData, symbol, copy)

LookupElementEigenvalue(symbol) ==
    Lookup("LookupElementEigenvalue", Eigenvalues, symbol, FALSE)

LookupElementSEigenvalue(symbol) ==
    Lookup("LookupElementSEigenvalue", SEigenvalues, symbol, FALSE)

LookupElementShannonRadiusData(symbol, copy) ==
    Lookup("LookupElementShannonRadiusData", ShannonRadiiData, symbol, copy)

LookupElementSSEData(symbol) ==
    Lookup("LookupElementSSEData", SSEData, symbol, FALSE)

LookupElementSSE2015Data(symbol, copy) ==
    Lookup("LookupElementSSE2015Data", SSE2015Data, symbol, copy)

LookupElementSSEPaulingData(symbol) ==
    Lookup("LookupElementSSEPaulingData", SSEPaulingData, symbol, FALSE)

-----------------------------------------------------------------------------
(* The caller.  It keeps every object a lookup returned and may change it  *)
(* in place: append to or remove from a list, assign a field of a dict.    *)

\* The dicts the caller reaches through a returned object.
DictsOf(id) ==
    CASE id.k = "dict" -> {id}
      [] id.k = "dicts" -> {heap[id][j] : j \in 1..Len(heap[id])}
      [] OTHER -> {}

\* The fields the caller assigns.
AssignedFields ==
    {"RCov", "charge", "SolidStateEnergy", "OxidationState", "SolidStateEnergyPauling"}

Mutation(e, id, v) ==
    /\ steps < MaxSteps
    /\ heap' = Put(heap, id, v)
    /\ call' = Call("mutate", "", "", e.copy, FALSE, ReturnObject(id))
    /\ out' = <<>>
    /\ steps' = steps + 1
    /\ UNCHANGED <<PrintWarnings, cache, files, opens, held, allocs, threads>>

\* returned.append(9) on a list of ints.
MutateAppend ==
    \E e \in held :
        /\ e.id.k = "ints"
        /\ Mutation(e, e.id, Append(heap[e.id], 9))

\* returned.pop() on a list.
MutateRemove ==
    \E e \in held :
        /\ e.id.k \in {"ints", "dicts"}
        /\ heap[e.id] # <<>>
        /\ Mutation(e, e.id, SubSeq(heap[e.id], 1, Len(heap[e.id]) - 1))

\* record[field] = 99 on a returned dict or on a dict of a returned list.
MutateField ==
    \E e \in held :
        \E id \in DictsOf(e.id) :
            \E f \in DOMAIN heap[id] \cap AssignedFields :
                /\ heap[id][f] # 99
                /\ Mutation(e, id, SetItem(heap[id], f, 99))

-----------------------------------------------------------------------------
(* Threads.  The module has no lock, so a lookup called from two threads   *)
(* is interleaved statement by statement: the test of the global, the      *)
(* assignment of the empty dict, the opening of the file, each iteration   *)
(* of the loop, the test "symbol in <global>" and the subscript of the     *)
(* return statement.  Each statement reads the global by name, so that it  *)
(* sees the dict the other thread may have bound in the meantime.          *)

Threads == {"A", "B"}

\* The datasets the threads look up.
ThreadDatasets == {OxidationStates, ShannonRadiiData}

\* A lookup returned the value of the symbol.
ReturnValue == [kind |-> "return", t |-> "value", v |-> 0]

\* A thread: the statement it is at, the lookup it is in, the row its loop
\* reads next, its outcome, and whether its lookup ran with no other lookup
\* in progress.
Thread(pc, d, symbol, i, res, alone) ==
    [pc |-> pc, ds |-> d, symbol |-> symbol, i |-> i, res |-> res, alone |-> alone]

\* A thread that has not called yet.
Idle == Thread("idle", "", "", 0, ReturnNone, TRUE)

\* The thread is inside a lookup.
Running(th) == th.pc \notin {"idle", "done"}

\* The test of the global taken to be true whatever the global is.
NeedsLoadAlways(d) == TRUE

\* "<global> == None".
NeedsLoad(d) == cache[d].none

\* The thread moves to statement pc.
Goto(t, pc) == threads' = [threads EXCEPT ![t].pc = pc]

\* The lookup of the thread ends with outcome res.
Finish(t, res) == threads' = [threads EXCEPT ![t].pc = "done", ![t].res = res]

\* The thread calls the lookup of d.
ThreadCall(t, d, symbol) ==
    /\ threads[t].pc = "idle"
    /\ LET busy == \E u \in Threads : Running(threads[u])
       IN threads' = [u \in Threads |->
                        IF u = t THEN Thread("test", d, symbol, 0, ReturnNone, ~busy)
                        ELSE IF Running(threads[u]) THEN [threads[u] EXCEPT !.alone = FALSE]
                        ELSE threads[u]]
    /\ UNCHANGED <<PrintWarnings, cache, heap, files, opens, held, allocs, call, out, steps>>

\* if <global> == None:
ThreadTest(t) ==
    /\ threads[t].pc = "test"
    /\ Goto(t, IF NeedsLoad(threads[t].ds) THEN "assign" ELSE "keytest")
    /\ UNCHANGED <<PrintWarnings, cache, heap, files, opens, held, allocs, call, out, steps>>

\* <global> = {}
ThreadAssignEmpty(t) ==
    /\ threads[t].pc = "assign"
    /\ cache' = Loading(threads[t].ds, PrintWarnings).cache
    /\ Goto(t, "open")
    /\ UNCHANGED <<PrintWarnings, heap, files, opens, held, allocs, call, out, steps>>

\* with open(...) as instream, and next(reader) where the loader has it.
ThreadOpen(t) ==
    LET d == threads[t].ds
    IN /\ threads[t].pc = "open"
       /\ opens' = [opens EXCEPT ![d] = @ + 1]
       /\ IF ~files[d].exists THEN Finish(t, Raise("IOError"))
          ELSE IF d \in HeaderDatasets /\ files[d].rows = <<>>
               THEN Finish(t, Raise("StopIteration"))
               ELSE threads' = [threads EXCEPT ![t].pc = "row",
                                               ![t].i = IF d \in HeaderDatasets THEN 2 ELSE 1]
       /\ UNCHANGED <<PrintWarnings, cache, heap, files, held, allocs, call, out, steps>>

\* One iteration of the loop, on the globals as they are now; the end of the
\* file leads to the statement after the loader.
ThreadRow(t) ==
    LET d == threads[t].ds
        i == threads[t].i
    IN /\ threads[t].pc = "row"
       /\ IF i > Len(files[d].rows)
          THEN Goto(t, "keytest") /\ UNCHANGED <<cache, heap>>
          ELSE \E st \in {LoadRow(d, files[d].rows[i], i, Entering(PrintWarnings))} :
                /\ cache' = st.cache
                /\ heap' = st.heap
                /\ IF st.err # "" THEN Finish(t, Raise(st.err))
                   ELSE threads' = [threads EXCEPT ![t].i = i + 1]
       /\ UNCHANGED <<PrintWarnings, files, opens, held, allocs, call, out, steps>>

\* if symbol in <global>: ... else: return None
ThreadKeyTest(t) ==
    /\ threads[t].pc = "keytest"
    /\ IF threads[t].symbol \in DOMAIN cache[threads[t].ds].dict
       THEN Goto(t, "fetch")
       ELSE Finish(t, ReturnNone)
    /\ UNCHANGED <<PrintWarnings, cache, heap, files, opens, held, allocs, call, out, steps>>

\* return ... <global>[symbol] ...
ThreadFetch(t) ==
    /\ threads[t].pc = "fetch"
    /\ IF threads[t].symbol \in DOMAIN cache[threads[t].ds].dict
       THEN Finish(t, ReturnValue)
       ELSE Finish(t, Raise("KeyError"))
    /\ UNCHANGED <<PrintWarnings, cache, heap, files, opens, held, allocs, call, out, steps>>

-----------------------------------------------------------------------------
(* The data directory.  The module reads whatever files it finds there, so *)
(* the model starts from several directories: one with well-formed files   *)
(* and two in which files are missing or hold a malformed row.             *)

File(rows) == [exists |-> TRUE, rows |-> rows]
Missing == [exists |-> FALSE, rows |-> <<>>]

\* The text line made of the tokens separated by single blanks.
RECURSIVE Join(_)
Join(tokens) ==
    IF Len(tokens) <= 1 THEN tokens ELSE <<Head(tokens), " ">> \o Join(Tail(tokens))

IronRow ==
    Join(<<"26", "Fe", "1.6", "2.5", "1", "2", "6", "26", "1.6", "8", "0.7", "1", "0.0",
           "0.0", "Iron">>)

\* An earlier row of the same element whose covalent radius is the default.
IronRowDefaultRadius ==
    Join(<<"26", "Fe", "1.6", "1.6", "1", "2", "6", "26", "1.6", "8", "0.7", "1", "0.0",
           "0.0", "Iron">>)

\* A row whose covalent radius, electronegativity, ionisation potential and
\* electron affinity hold the default values.
OxygenRow ==
    Join(<<"8", "O", "3", "1.6", "1", "2", "2", "8", "0.0", "0.0", "0.0", "1", "0.0",
           "0.0", "Oxygen">>)

\* The same row with a mass that is no number.
OxygenRowBadMass ==
    Join(<<"8", "O", "3", "1.6", "1", "2", "2", "heavy", "0.0", "0.0", "0.0", "1", "0.0",
           "0.0", "Oxygen">>)

ShannonHeader == <<"ion", "charge", "coordination", "crystal_radius", "ionic_radius", "comment">>

WellFormedFiles ==
    [d \in Datasets |->
        CASE d = OxidationStates ->
                File(<<Join(<<"#", "element", "states">>),
                       Join(<<"Fe", "3">>),
                       Join(<<"Fe", "2", "3", "6">>),
                       <<" ", "O", " ">>>>)
          [] d = CrustalAbundances ->
                File(<<Join(<<"#Fe", "1">>),
                       Join(<<"Fe", "2.5">>),
                       Join(<<"Fe", "1.6">>),
                       <<" ", "#", " ", "O", " ", "1">>,
                       <<" ", "O", " ", "26">>>>)
          [] d = HHIs ->
                File(<<Join(<<"Fe", "1", "2">>),
                       Join(<<"O", "1", "2", "#note">>),
                       Join(<<"Fe", "2.5", "0.7">>)>>)
          [] d = OpenBabelDerivedData ->
                File(<<Join(<<"#", "Num", "Symb">>), IronRowDefaultRadius, IronRow, OxygenRow>>)
          [] d = Eigenvalues ->
                File(<<<<"Element", "Eigenvalue">>, <<"Fe", "2.5">>, <<"Fe", "-1.5">>,
                       <<"O", "-2">>>>)
          [] d = SEigenvalues ->
                File(<<<<"Element", "Eigenvalue">>, <<"Fe", "0.7">>, <<"O", "2.5">>>>)
          [] d = ShannonRadiiData ->
                File(<<ShannonHeader,
                       <<"Fe", "2", "IV", "0.7", "0.7", "HS">>,
                       <<"O", "-2", "II", "1.6", "1", "">>,
                       <<"Fe", "3", "VI", "2.5", "2", "">>>>)
          [] d = SSEData ->
                File(<<<<"O", "8", "-1.5", "6", "1.6", "3", "2">>,
                       <<"Fe", "26", "-1.5", "6", "1", "3", "2">>,
                       <<"Fe", "26", "-2", "8", "0.7", "4", "1">>>>)
          [] d = SSE2015Data ->
                File(<<<<"Fe", "2", "-1.5">>, <<"O", "-2", "0.7">>, <<"Fe", "3", "-2">>>>)
          [] d = SSEPaulingData ->
                File(<<<<"O", "0.7">>, <<"Fe", "2.5">>, <<"Fe", "-1.5">>>>)]

\* Files cut short, rows with a field that is no number, blank lines, files
\* that are missing.
MalformedFilesA ==
    [d \in Datasets |->
        CASE d = OxidationStates ->
                File(<<Join(<<"Fe", "2", "3">>), Join(<<"O", "-2", "two">>)>>)
          [] d = CrustalAbundances ->
                File(<<Join(<<"Fe", "2.5">>), Join(<<"O">>)>>)
          [] d = HHIs -> Missing
          [] d = OpenBabelDerivedData ->
                File(<<IronRow, OxygenRowBadMass>>)
          [] d = Eigenvalues ->
                File(<<<<"Element", "Eigenvalue">>, <<"Fe", "-1.5">>, <<>>, <<"O", "-2">>>>)
          [] d = SEigenvalues -> Missing
          [] d = ShannonRadiiData ->
                File(<<ShannonHeader,
                       <<"Fe", "2", "IV", "0.7", "0.7", "HS">>,
                       <<"O", "2-", "II", "1.6", "1", "">>>>)
          [] d = SSEData -> Missing
          [] d = SSE2015Data ->
                File(<<<<"Fe", "2", "-1.5">>, <<"O", "-2">>>>)
          [] d = SSEPaulingData ->
                File(<<<<"Fe", "-1.5">>, <<"O", "n/a">>>>)]

MalformedFilesB ==
    [d \in Datasets |->
        CASE d = OxidationStates ->
                File(<<Join(<<"Fe", "2", "3">>), <<" ">>, Join(<<"O", "-2">>)>>)
          [] d = CrustalAbundances -> Missing
          [] d = HHIs ->
                File(<<Join(<<"Fe", "2.5", "0.7">>), Join(<<"O", "1">>)>>)
          [] d = OpenBabelDerivedData -> File(<<IronRow, <<>>, OxygenRow>>)
          [] d = Eigenvalues -> File(<<>>)
          [] d = SEigenvalues ->
                File(<<<<"Element", "Eigenvalue">>, <<"Fe", "0.7">>, <<"O", "high">>>>)
          [] d = ShannonRadiiData -> Missing
          [] d = SSEData ->
                File(<<<<"Fe", "26", "-2", "8", "0.7", "4", "1">>, <<"O", "8", "-1.5">>>>)
          [] d = SSE2015Data -> Missing
          [] d = SSEPaulingData -> Missing]

DataDirectories == {WellFormedFiles, MalformedFilesA, MalformedFilesB}

-----------------------------------------------------------------------------
(* The state machine.                                                      *)

\* The state after "import smact.data_loader": every global is None and
\* warnings are off (lines 31, 49, 93, 130, 167, 279, 317, 355, 415, 460, 511).
Init ==
    /\ PrintWarnings = FALSE
    /\ cache = [d \in Datasets |-> NoneValue]
    /\ heap = <<>>
    /\ files \in DataDirectories
    /\ opens = [d \in Datasets |-> 0]
    /\ held = {}
    /\ allocs = 0
    /\ call = Call("import", "", "", FALSE, FALSE, ReturnNone)
    /\ out = <<>>
    /\ steps = 0
    /\ threads = [t \in Threads |-> Idle]

Next ==
    \/ \E enable \in BOOLEAN : ToggleWarnings(enable)
    \/ \E symbol \in Symbols, copy \in BOOLEAN : LookupElementOxidationStates(symbol, copy)
    \/ \E symbol \in Symbols : LookupElementCrustalAbundance(symbol)
    \/ \E symbol \in Symbols : LookupElementHHIs(symbol)
    \/ \E symbol \in Symbols, copy \in BOOLEAN : LookupElementOpenBabelDerivedData(symbol, copy)
    \/ \E symbol \in Symbols : LookupElementEigenvalue(symbol)
    \/ \E symbol \in Symbols : LookupElementSEigenvalue(symbol)
    \/ \E symbol \in Symbols, copy \in BOOLEAN : LookupElementShannonRadiusData(symbol, copy)
    \/ \E symbol \in Symbols : LookupElementSSEData(symbol)
    \/ \E symbol \in Symbols, copy \in BOOLEAN : LookupElementSSE2015Data(symbol, copy)
    \/ \E symbol \in Symbols : LookupElementSSEPaulingData(symbol)
    \/ MutateAppend
    \/ MutateRemove
    \/ MutateField

Spec == Init /\ [][Next]_vars

\* Two threads, each making one lookup, interleaved statement by statement.
NextThreads ==
    \E t \in Threads :
        \/ \E d \in ThreadDatasets, symbol \in Symbols : ThreadCall(t, d, symbol)
        \/ ThreadTest(t)
        \/ ThreadAssignEmpty(t)
        \/ ThreadOpen(t)
        \/ ThreadRow(t)
        \/ ThreadKeyTest(t)
        \/ ThreadFetch(t)

SpecThreads == Init /\ [][NextThreads]_vars

-----------------------------------------------------------------------------
(* What the files say, read as the documentation of the datasets reads     *)
(* them: the data rows of a file and the symbols in their key column.      *)

Range(seq) == {seq[k] : k \in DOMAIN seq}

\* The last call was a lookup.
IsLookup(c) == c.ds \in Datasets

\* The call returned None; the call returned the float x.
ReturnedNone(c) == c.res.kind = "return" /\ c.res.t = "None"
ReturnedFloat(c, x) == c.res.kind = "return" /\ c.res.t = "float" /\ c.res.v = x

\* The file of d is the well-formed one.
WellFormed(d) == files[d] = WellFormedFiles[d]

\* The data rows of d's file: no comment line, no header row.
DataRows(d) ==
    LET rows == files[d].rows
    IN IF d \in WhitespaceDatasets
       THEN {Split(rows[k]) : k \in {j \in DOMAIN rows : Strip(rows[j]) # <<>>
                                               /\ Head(Strip(rows[j])) \notin HashTokens}}
       ELSE IF d \in HeaderDatasets THEN {rows[k] : k \in DOMAIN rows \ {1}}
       ELSE Range(rows)

\* The column of the symbol.
KeyColumn(d) == IF d = OpenBabelDerivedData THEN 1 ELSE 0

SymbolsInFile(d) == {Item(r, KeyColumn(d)) : r \in DataRows(d)}

\* The content of an object: of a list of dicts, the list of their contents.
View(h, id) ==
    IF id.k = "dicts" THEN [j \in 1..Len(h[id]) |-> h[h[id][j]]] ELSE h[id]

\* The content of the cached entries of the object datasets.
CachedViews(c, h) ==
    [d \in ObjectDatasets |-> [s \in DOMAIN c[d].dict |-> View(h, c[d].dict[s])]]

-----------------------------------------------------------------------------
(* C1: each backing file is opened at most once.  open() has been called   *)
(* on a dataset's file exactly when its global is no longer None; a global *)
(* that is a dict never becomes None again and its file is not opened      *)
(* again; every lookup on a dataset leaves its global a dict (so it is the *)
(* first lookup that opens), and no lookup opens the file of another       *)
(* dataset.                                                                *)
C1_FileOpenedAtMostOnce ==
    [][\A d \in Datasets :
          /\ opens'[d] = IF cache'[d].none THEN 0 ELSE 1
          /\ ~cache[d].none => ~cache'[d].none /\ opens'[d] = opens[d]
          /\ call'.ds = d => ~cache'[d].none
          /\ opens'[d] # opens[d] => call'.ds = d /\ cache[d].none]_vars

\* A lookup answered from the cache of a dataset loaded earlier, while
\* another dataset is loaded too.
C1_Witness ==
    /\ IsLookup(call)
    /\ ~call.loaded
    /\ opens[call.ds] = 1
    /\ \E e \in Datasets \ {call.ds} : opens[e] = 1

(* C2: a first lookup that fails while loading (missing file, row too      *)
(* short, field that is no number) leaves the dataset's global None.       *)
C2_FailedLoadLeavesNone ==
    (IsLookup(call) /\ call.res.kind = "raise"
        /\ call.res.t \in {"IOError", "IndexError", "ValueError"})
    => cache[call.ds].none

(* C3: a lookup with copy=True returns a container that did not exist      *)
(* before the call (so it is neither the cached one nor an earlier         *)
(* result), whose content equals that of the cached one; the dicts of a    *)
(* returned list are new as well; and a mutation made through a result of  *)
(* a copy=True lookup leaves the content of every cached entry unchanged.  *)
C3_CopyIsFreshAndIsolated ==
    [][/\ (call'.ds \in CopyDatasets /\ call'.copy /\ call'.res.t = "object") =>
            LET id == call'.res.v
                cached == cache'[call'.ds].dict[call'.symbol]
            IN /\ id \notin DOMAIN heap
               /\ id # cached
               /\ View(heap', id) = View(heap', cached)
               /\ id.k = "dicts" =>
                    /\ \A j \in DOMAIN heap'[id] : heap'[id][j] \notin DOMAIN heap
                    /\ Cardinality(Range(heap'[id])) = Len(heap'[id])
       /\ (call'.fn = "mutate" /\ call'.copy) =>
            CachedViews(cache', heap') = CachedViews(cache, heap)]_vars

\* A dict of an earlier copy=True result was changed, and a later copy=True
\* lookup of a list of dicts returned a list without the change.
C3_Witness ==
    /\ call.ds \in ListOfDictDatasets
    /\ call.copy
    /\ call.res.t = "object"
    /\ \A id \in DictsOf(call.res.v) : \A f \in AssignedFields \cap DOMAIN heap[id] :
            heap[id][f] # 99
    /\ \E e \in held :
        /\ e.copy
        /\ e.id.k = "dicts"
        /\ \E id \in DictsOf(e.id) : \E f \in AssignedFields \cap DOMAIN heap[id] : heap[id][f] = 99

(* C4: LookupElementSSEData and LookupElementSSEPaulingData return a copy  *)
(* of the cached record, never the cached record itself.                   *)
C4_SSERecordIsCopied ==
    (call.ds \in {SSEData, SSEPaulingData} /\ call.res.t = "object")
    => call.res.v # cache[call.ds].dict[call.symbol]

(* C5: a lookup with copy=False returns the cached object itself; the      *)
(* object cached for a symbol is the same for ever; and every lookup,      *)
(* with or without copy, returns the content the cached object has at the  *)
(* time of the call, so that it shows the mutations made through a         *)
(* reference.                                                              *)
C5_ReferenceIsCachedObject ==
    [][/\ (call'.ds \in CopyDatasets /\ ~call'.copy /\ call'.res.t = "object") =>
            call'.res.v = cache'[call'.ds].dict[call'.symbol]
       /\ \A d \in CopyDatasets : \A s \in DOMAIN cache[d].dict :
            s \in DOMAIN cache'[d].dict /\ cache'[d].dict[s] = cache[d].dict[s]
       /\ (call'.ds \in CopyDatasets /\ call'.res.t = "object"
                /\ call'.symbol \in DOMAIN cache[call'.ds].dict) =>
            View(heap', call'.res.v) = View(heap, cache[call'.ds].dict[call'.symbol])]_vars

\* The caller appended to the list a copy=False lookup returned, and a
\* copy=True lookup then returned a list with the appended element.
C5_Witness ==
    /\ call.ds = OxidationStates
    /\ call.copy
    /\ call.res.t = "object"
    /\ 9 \in Range(heap[call.res.v])
    /\ \E e \in held : ~e.copy /\ e.id = cache[OxidationStates].dict[call.symbol]

(* C6: with a well-formed file, the lookup of a symbol that is not in the  *)
(* file returns None and raises nothing.                                   *)
C6_AbsentSymbolReturnsNone ==
    (IsLookup(call) /\ WellFormed(call.ds) /\ call.symbol \notin SymbolsInFile(call.ds))
    => ReturnedNone(call)

(* C7: a lookup on a dataset leaves the global of every other dataset      *)
(* unchanged.                                                              *)
C7_LookupLeavesOtherCaches ==
    [][IsLookup(call') => \A e \in Datasets \ {call'.ds} : cache'[e] = cache[e]]_vars

(* C8: with a well-formed Eigenvalues_s.csv, LookupElementSEigenvalue of a *)
(* symbol of a data row returns the float of column 1 of that row.         *)
C8_SEigenvalueReturnsColumn1 ==
    (call.ds = SEigenvalues /\ WellFormed(SEigenvalues)
        /\ call.symbol \in SymbolsInFile(SEigenvalues))
    => \E r \in DataRows(SEigenvalues) :
            Item(r, 0) = call.symbol /\ ReturnedFloat(call, FloatOf(r, 1))

(* C9: a global that is a dict has exactly the symbols of the data rows of *)
(* its own file as keys.  Stated for the well-formed files only, where no  *)
(* loader stops half-way.                                                  *)
C9_KeysAreSymbolsOfOwnFile ==
    \A d \in Datasets :
        (WellFormed(d) /\ ~cache[d].none) => DOMAIN cache[d].dict = SymbolsInFile(d)

-----------------------------------------------------------------------------
(* The sentinel values as the documentation names them: a covalent radius  *)
(* of 1.6, an electronegativity, ionisation potential or electron affinity *)
(* of 0.0, and the column of element.txt that holds each.                  *)

SentinelValue ==
    ("RCov" :> 16) @@ ("ElNeg." :> 0) @@ ("Ionization" :> 0) @@ ("ElAffinity" :> 0)

SentinelColumn ==
    ("RCov" :> 3) @@ ("ElNeg." :> 8) @@ ("Ionization" :> 9) @@ ("ElAffinity" :> 10)

SentinelFields == DOMAIN SentinelValue

\* The sentinel warnings among what a call printed.
SentinelPart(o) == SelectSeq(o, LAMBDA w : w.w \in SentinelFields)

\* The rows of a whitespace file that are neither blank nor comments, by
\* line number.
DataLines(d) ==
    {j \in DOMAIN files[d].rows :
        Strip(files[d].rows[j]) # <<>> /\ Head(Strip(files[d].rows[j])) \notin HashTokens}

\* The pairs of a line of element.txt and a field that holds its sentinel.
SentinelHits ==
    {h \in DataLines(OpenBabelDerivedData) \X SentinelFields :
        FloatOf(Split(files[OpenBabelDerivedData].rows[h[1]]), SentinelColumn[h[2]])
            = SentinelValue[h[2]]}

(* C11, as the claim states it: whenever warnings are enabled and a lookup *)
(* returns the Open-Babel record of an element one of whose fields holds   *)
(* its sentinel, that lookup prints the sentinel warning for that element  *)
(* and field, whether or not the dataset was loaded by an earlier call.    *)
C11_SentinelWarningOnEveryLookup ==
    (call.ds = OpenBabelDerivedData /\ call.res.t = "object" /\ PrintWarnings)
    => \A f \in SentinelFields :
            heap[call.res.v][f] = SentinelValue[f]
            => Warning(f, OpenBabelDerivedData, call.symbol) \in Range(out)

(* C11, amended: the sentinel warning is printed by the lookup that loads  *)
(* the Open-Babel dataset: when warnings are enabled and that lookup       *)
(* returns the record of an element one of whose fields holds its          *)
(* sentinel, it prints the warning for that element and field; a lookup on *)
(* the dataset loaded by an earlier call prints no sentinel warning,       *)
(* whatever the switch says.                                               *)
C11_SentinelWarningOnLoadingLookup ==
    (call.ds = OpenBabelDerivedData /\ call.res.t = "object")
    => /\ (call.loaded /\ PrintWarnings) =>
            \A f \in SentinelFields :
                heap[call.res.v][f] = SentinelValue[f]
                => Warning(f, OpenBabelDerivedData, call.symbol) \in Range(out)
       /\ ~call.loaded => SentinelPart(out) = <<>>

\* The loading lookup returned a record with the default radius and printed
\* the warning for it.
C11_Witness ==
    /\ call.ds = OpenBabelDerivedData
    /\ call.loaded
    /\ PrintWarnings
    /\ call.res.t = "object"
    /\ heap[call.res.v]["RCov"] = 16
    /\ Warning("RCov", OpenBabelDerivedData, call.symbol) \in Range(out)

(* C12: sentinel warnings are tied to the load.  A call prints a sentinel  *)
(* warning only if it is the lookup that loads the Open-Babel dataset and  *)
(* warnings are enabled during it; so no later lookup, no lookup on        *)
(* another dataset, no ToggleWarnings call prints one.  With a well-formed *)
(* element.txt the loading lookup prints, when warnings are enabled, one   *)
(* warning for every line and field of the file that holds a sentinel, and *)
(* no other, whatever symbol it asks for.                                  *)
C12_SentinelWarningsTiedToLoad ==
    /\ SentinelPart(out) # <<>> =>
            call.ds = OpenBabelDerivedData /\ call.loaded /\ PrintWarnings
    /\ (call.ds = OpenBabelDerivedData /\ call.loaded /\ PrintWarnings
            /\ WellFormed(OpenBabelDerivedData)) =>
            /\ Len(SentinelPart(out)) = Cardinality(SentinelHits)
            /\ Range(SentinelPart(out)) =
                    {Warning(h[2], OpenBabelDerivedData,
                             Item(Split(files[OpenBabelDerivedData].rows[h[1]]), 1)) :
                        h \in SentinelHits}

\* The loading lookup asked for a symbol that is not in the file and
\* printed the warnings of the rows of other elements.
C12_Witness ==
    /\ call.ds = OpenBabelDerivedData
    /\ call.loaded
    /\ PrintWarnings
    /\ call.symbol = "Xx"
    /\ Len(SentinelPart(out)) = 5
    /\ Warning("ElAffinity", OpenBabelDerivedData, "O") \in Range(out)

-----------------------------------------------------------------------------
(* The data rows of a file in file order, and what the documentation says  *)
(* a row means.                                                            *)

\* The data rows of d's file, split, in the order of the file.
DataRowSeq(d) ==
    LET rows == files[d].rows
        data(line) == Strip(line) # <<>> /\ Head(Strip(line)) \notin HashTokens
        kept == SelectSeq(rows, data)
    IN IF d \in WhitespaceDatasets THEN [j \in 1..Len(kept) |-> Split(kept[j])]
       ELSE IF d \in {Eigenvalues, SEigenvalues, ShannonRadiiData} THEN Tail(rows)
       ELSE rows

\* The data rows of symbol s, in the order of the file.
RowsOf(d, s) == SelectSeq(DataRowSeq(d), LAMBDA r : Item(r, KeyColumn(d)) = s)

\* The caller holds no reference to an object of d's cache.
NoReferenceInto(d) == \A e \in held : e.copy \/ e.id.ds # d

\* The record of a row of a multi-record dataset.
RecordOf(d, r) == IF d = ShannonRadiiData THEN ShannonDataset(r) ELSE SSE2015Dataset(r)

(* C13: for the multi-record datasets (Shannon radii, SSE-2015) with a     *)
(* well-formed file, as long as the caller holds no reference into the     *)
(* cache of the dataset, the list a lookup of S returns holds exactly one  *)
(* record per data row of the file whose first column is S, in the order   *)
(* of those rows in the file, also when rows of other symbols stand        *)
(* between them; with no such row the lookup returns None.  The content   *)
(* of a loaded cache changes only when the caller changes an object it got *)
(* by reference.                                                           *)
C13_RecordsInFileOrder ==
    [][/\ (call'.ds \in ListOfDictDatasets /\ WellFormed(call'.ds)
                /\ NoReferenceInto(call'.ds)) =>
            LET rows == RowsOf(call'.ds, call'.symbol)
            IN IF rows = <<>> THEN ReturnedNone(call')
               ELSE /\ call'.res.t = "object"
                    /\ View(heap', call'.res.v) =
                            [j \in 1..Len(rows) |-> RecordOf(call'.ds, rows[j])]
       /\ \A d \in ListOfDictDatasets :
            (~cache[d].none /\ ~(call'.fn = "mutate" /\ ~call'.copy)) =>
                CachedViews(cache', heap')[d] = CachedViews(cache, heap)[d]]_vars

\* A lookup on the Shannon radii loaded earlier returned the two records of
\* Fe, whose rows have a row of O between them, in file order.
C13_Witness ==
    /\ call.ds = ShannonRadiiData
    /\ call.symbol = "Fe"
    /\ ~call.loaded
    /\ call.res.t = "object"
    /\ NoReferenceInto(ShannonRadiiData)
    /\ Len(heap[call.res.v]) = 2
    /\ heap[heap[call.res.v][1]]["charge"] = 2
    /\ heap[heap[call.res.v][2]]["charge"] = 3

\* The oxidation states a line 'S t1 ... tn' lists.
StatesOf(r) == [k \in 1..(Len(r) - 1) |-> IntTable[r[k + 1]]]

(* C14, as the claim states it: with a well-formed oxidation_states.txt    *)
(* and no reference of the caller into the cache, a lookup of S returns,   *)
(* for every non-comment line 'S t1 ... tn' of the file, the list of the   *)
(* integers t1..tn (the empty list when n = 0), and None when S is on no   *)
(* line.                                                                   *)
C14_EveryLineIsReturned ==
    [][(call'.ds = OxidationStates /\ WellFormed(OxidationStates)
            /\ NoReferenceInto(OxidationStates)) =>
            LET rows == RowsOf(OxidationStates, call'.symbol)
            IN IF rows = <<>> THEN ReturnedNone(call')
               ELSE /\ call'.res.t = "object"
                    /\ \A j \in DOMAIN rows : heap'[call'.res.v] = StatesOf(rows[j])]_vars

(* C14, amended: with a well-formed oxidation_states.txt and no reference  *)
(* of the caller into the cache, a lookup of S returns the list of the     *)
(* integers t1..tn, in line order, of the last non-comment line            *)
(* 'S t1 ... tn' of the file (the empty list, not None, when n = 0), and   *)
(* None when S is on no line.                                              *)
C14_LastLineIsReturned ==
    [][(call'.ds = OxidationStates /\ WellFormed(OxidationStates)
            /\ NoReferenceInto(OxidationStates)) =>
            LET rows == RowsOf(OxidationStates, call'.symbol)
            IN IF rows = <<>> THEN ReturnedNone(call')
               ELSE /\ call'.res.t = "object"
                    /\ heap'[call'.res.v] = StatesOf(rows[Len(rows)])]_vars

\* Fe stands on two lines, 'Fe 3' and then 'Fe 2 3 6'; a lookup returned
\* the states of the second.
C14_Witness ==
    /\ call.ds = OxidationStates
    /\ call.symbol = "Fe"
    /\ call.res.t = "object"
    /\ WellFormed(OxidationStates)
    /\ NoReferenceInto(OxidationStates)
    /\ Len(RowsOf(OxidationStates, "Fe")) = 2
    /\ heap[call.res.v] = <<2, 3, 6>>

-----------------------------------------------------------------------------
(* Header rows of the comma-separated files.                               *)

CsvDatasets == Datasets \ WhitespaceDatasets

\* The first row of d's file was skipped by the load that leads to caches c:
\* its first field is a key of no cache, and the row after it was read.
FirstRowSkipped(d, c) ==
    LET rows == files[d].rows
    IN /\ \A g \in Datasets : rows[1][1] \notin DOMAIN c[g].dict
       /\ rows[2][1] \in DOMAIN c[LoopTarget(d)].dict

\* The first row of d's file was parsed as data by the load that leads to
\* caches c and heap h: its first field is a key of d's cache, and the entry
\* of the key holds the record of the row (as the first of its list in a
\* multi-record dataset, as the value when no later row has the same key).
FirstRowParsed(d, c, h) ==
    LET r == files[d].rows[1]
        key == r[1]
    IN /\ key \in DOMAIN c[d].dict
       /\ d \in ListOfDictDatasets => h[h[c[d].dict[key]][1]] = RecordOf(d, r)
       /\ (d = SSEData /\ Len(RowsOf(d, key)) = 1) => h[c[d].dict[key]] = SSEDataset(r)
       /\ (d = SSEPaulingData /\ Len(RowsOf(d, key)) = 1) =>
            h[c[d].dict[key]] = SSEPaulingDataset(r)

\* A step in which a lookup loads d from its well-formed file and the loop
\* of the loader has a dict to assign into.
LoadsWellFormed(d) ==
    /\ call'.ds = d
    /\ cache[d].none
    /\ WellFormed(d)
    /\ ~cache'[LoopTarget(d)].none

(* C15, as the claim states it: the load of a comma-separated file         *)
(* discards the first row, which yields no cache entry, except for SSE.csv *)
(* and SSE_Pauling.csv, whose first row is parsed as data; so the first    *)
(* row of Eigenvalues.csv, Eigenvalues_s.csv, shannon_radii.csv and        *)
(* SSE_2015.csv is discarded.                                              *)
C15_HeaderSkippedButSSEAndPauling ==
    [][\A d \in CsvDatasets :
          LoadsWellFormed(d) =>
              IF d \in {SSEData, SSEPaulingData} THEN FirstRowParsed(d, cache', heap')
              ELSE FirstRowSkipped(d, cache')]_vars

(* C15, amended: the load of a comma-separated file discards the first row *)
(* as a header, which yields no cache entry, except for SSE.csv,           *)
(* SSE_2015.csv and SSE_Pauling.csv, whose first row is parsed as data; so *)
(* the first row of Eigenvalues.csv, Eigenvalues_s.csv and                 *)
(* shannon_radii.csv is discarded.                                         *)
C15_HeaderSkippedInThreeFiles ==
    [][\A d \in CsvDatasets :
          LoadsWellFormed(d) =>
              IF d \in {SSEData, SSE2015Data, SSEPaulingData}
              THEN FirstRowParsed(d, cache', heap')
              ELSE FirstRowSkipped(d, cache')]_vars

\* SSE_2015.csv and shannon_radii.csv are both loaded: the first row of the
\* one is the first record of Fe, the first row of the other is no key.
C15_Witness ==
    /\ WellFormed(SSE2015Data)
    /\ WellFormed(ShannonRadiiData)
    /\ call.ds = SSE2015Data
    /\ call.loaded
    /\ ~cache[ShannonRadiiData].none
    /\ "ion" \notin DOMAIN cache[ShannonRadiiData].dict
    /\ "Fe" \in DOMAIN cache[SSE2015Data].dict
    /\ heap[heap[cache[SSE2015Data].dict["Fe"]][1]]["OxidationState"] = 2

-----------------------------------------------------------------------------
(* Single-record datasets.                                                 *)

SingleRecordDatasets ==
    {CrustalAbundances, HHIs, OpenBabelDerivedData, Eigenvalues, SSEData, SSEPaulingData,
     OxidationStates}

\* The result c of a lookup on d, in heap h, is the value parsed from row r.
ReturnedRow(c, h, d, r) ==
    CASE d \in {CrustalAbundances, Eigenvalues} -> ReturnedFloat(c, FloatOf(r, 1))
      [] d = HHIs -> c.res.t = "tuple" /\ c.res.v = <<FloatOf(r, 1), FloatOf(r, 2)>>
      [] d = OxidationStates -> c.res.t = "object" /\ h[c.res.v] = StatesOf(r)
      [] d = OpenBabelDerivedData -> c.res.t = "object" /\ h[c.res.v] = OpenBabelDataset(r)
      [] d = SSEData -> c.res.t = "object" /\ h[c.res.v] = SSEDataset(r)
      [] d = SSEPaulingData -> c.res.t = "object" /\ h[c.res.v] = SSEPaulingDataset(r)

(* C16: for the single-record datasets (crustal abundance, HHI, Open-Babel *)
(* data, eigenvalues, SSE, SSE-Pauling, oxidation states) with a           *)
(* well-formed file and no reference of the caller into the cache, the     *)
(* lookup of a symbol that stands in several data rows returns the value   *)
(* parsed from the last of those rows.                                     *)
C16_LastOccurrenceWins ==
    [][\A d \in SingleRecordDatasets :
          (call'.ds = d /\ WellFormed(d) /\ NoReferenceInto(d)
                /\ Len(RowsOf(d, call'.symbol)) > 1) =>
              LET rows == RowsOf(d, call'.symbol)
              IN ReturnedRow(call', heap', d, rows[Len(rows)])]_vars

-----------------------------------------------------------------------------
(* Results and the warnings switch.                                        *)

\* What the loader part of a lookup on d does from the current state when
\* _PrintWarnings has the value `enabled`.
LoadedWhen(d, enabled) ==
    IF cache[d].none THEN LoadFile(d, Loading(d, enabled)) ELSE Entering(enabled)

\* The result c, in heap h, is the entry of symbol s in the dict m of
\* dataset d, whose objects live in heap g.
ReturnedEntry(c, h, d, m, s, g) ==
    IF s \notin DOMAIN m THEN ReturnedNone(c)
    ELSE IF d \in ObjectDatasets
         THEN c.res.t = "object" /\ View(h, c.res.v) = View(g, m[s])
         ELSE /\ c.res.kind = "return"
              /\ c.res.t = (IF d = HHIs THEN "tuple" ELSE "float")
              /\ c.res.v = m[s]

(* C17: warnings never influence results.  Every step of a lookup leaves  *)
(* the globals and the objects of the caches that the same lookup leaves   *)
(* when it is made from the same state with the switch the other way,      *)
(* raises the exception that lookup raises, and otherwise returns what the *)
(* dict that lookup leaves holds for the symbol (or None); so the result   *)
(* and the caches after the step are a function of the caches before it   *)
(* and of the lookup, not of the switch.  ToggleWarnings changes no global *)
(* but the switch and no object.  So two runs with the same lookups that   *)
(* differ in their ToggleWarnings calls agree step by step on results and  *)
(* caches.  In particular a row of a well-formed element.txt is stored as  *)
(* parsed, sentinel or not.                                                *)
C17_WarningsLeaveResultsAlone ==
    [][/\ call'.fn = "ToggleWarnings" =>
            cache' = cache /\ heap' = heap /\ held' = held
       /\ IsLookup(call') =>
            \A other \in {LoadedWhen(call'.ds, ~PrintWarnings)} :
               /\ cache' = other.cache
               /\ \A id \in DOMAIN other.heap : heap'[id] = other.heap[id]
               /\ IF other.err # ""
                  THEN call'.res.kind = "raise" /\ call'.res.t = other.err
                  ELSE ReturnedEntry(call', heap', call'.ds, other.cache[call'.ds].dict,
                                     call'.symbol, other.heap)
       /\ (call'.ds = OpenBabelDerivedData /\ cache[OpenBabelDerivedData].none
                /\ WellFormed(OpenBabelDerivedData)) =>
            \A s \in DOMAIN cache'[OpenBabelDerivedData].dict :
                LET rows == RowsOf(OpenBabelDerivedData, s)
                IN heap'[cache'[OpenBabelDerivedData].dict[s]]
                        = OpenBabelDataset(rows[Len(rows)])]_vars

\* With warnings on, the lookup that loads element.txt printed the five
\* sentinel warnings of the file and returned the record of O with its four
\* sentinel values as parsed.
C17_Witness ==
    /\ call.ds = OpenBabelDerivedData
    /\ call.loaded
    /\ PrintWarnings
    /\ call.symbol = "O"
    /\ call.res.t = "object"
    /\ Len(SentinelPart(out)) = 5
    /\ \A f \in SentinelFields : heap[call.res.v][f] = SentinelValue[f]

-----------------------------------------------------------------------------
(* Comment lines and blank lines of the whitespace-delimited files.        *)

\* Nothing but whitespace.
IsBlank(line) == Strip(line) = <<>>

\* The first character after the surrounding whitespace is '#'.
IsComment(line) == ~IsBlank(line) /\ Head(Strip(line)) \in HashTokens

\* The number of the first blank line of d's file, 0 if it has none.
FirstBlank(d) ==
    LET blank == {j \in DOMAIN files[d].rows : IsBlank(files[d].rows[j])}
    IN IF blank = {} THEN 0 ELSE CHOOSE j \in blank : \A k \in blank : j <= k

\* d's file has a blank line, and every line before it is a comment or a
\* row all of whose fields parse.
BlankLineFile(d) ==
    /\ files[d].exists
    /\ FirstBlank(d) > 0
    /\ \A j \in 1..(FirstBlank(d) - 1) :
            LET line == files[d].rows[j]
            IN IsComment(line) \/ FirstBad(Split(line), Accesses(d, Split(line))) = 0

\* The symbols of the lines before line b that are no comments.
SymbolsBefore(d, b) ==
    {Item(Split(files[d].rows[j]), KeyColumn(d)) :
        j \in {k \in 1..(b - 1) : ~IsComment(files[d].rows[k])}}

(* C18: in the four whitespace-delimited loaders a line is skipped as a    *)
(* comment exactly when its first character after stripping is '#': the    *)
(* load of a well-formed file raises nothing and leaves as keys exactly    *)
(* the symbols of the lines that are no such comments (a line with         *)
(* whitespace before the '#' is skipped, a line with a '#' further on is   *)
(* parsed).  A blank line is not skipped: when every line before the first *)
(* blank line is a comment or parses, the first lookup raises IndexError   *)
(* and leaves as keys exactly the symbols of the rows before the blank     *)
(* line, and every later lookup of such a symbol returns its entry, while  *)
(* the file is not read again.                                             *)
C18_CommentsSkippedBlankLinesRaise ==
    [][\A d \in WhitespaceDatasets :
          /\ (call'.ds = d /\ cache[d].none /\ WellFormed(d)) =>
                /\ call'.res.kind = "return"
                /\ DOMAIN cache'[d].dict = SymbolsBefore(d, Len(files[d].rows) + 1)
          /\ (call'.ds = d /\ cache[d].none /\ BlankLineFile(d)) =>
                /\ call'.res.kind = "raise"
                /\ call'.res.t = "IndexError"
                /\ DOMAIN cache'[d].dict = SymbolsBefore(d, FirstBlank(d))
          /\ (call'.ds = d /\ ~cache[d].none /\ BlankLineFile(d)) =>
                /\ opens'[d] = opens[d]
                /\ cache'[d] = cache[d]
                /\ call'.symbol \in SymbolsBefore(d, FirstBlank(d)) =>
                        call'.res.kind = "return" /\ ~ReturnedNone(call')
                /\ call'.symbol \notin SymbolsBefore(d, FirstBlank(d)) =>
                        ReturnedNone(call')]_vars

\* After a first lookup that failed on the blank line, a lookup returned the
\* oxidation states of Fe, whose row stands before the blank line, from the
\* cache.
C18_Witness ==
    /\ call.ds = OxidationStates
    /\ BlankLineFile(OxidationStates)
    /\ "O" \in SymbolsInFile(OxidationStates)
    /\ ~call.loaded
    /\ call.symbol = "Fe"
    /\ call.res.t = "object"
    /\ heap[call.res.v] = <<2, 3>>
    /\ DOMAIN cache[OxidationStates].dict = {"Fe"}

-----------------------------------------------------------------------------
(* Lookups from two threads.                                               *)

\* The thread has returned from a lookup of a symbol that is in the
\* well-formed file of its dataset.
DoneWithPresent(th) ==
    /\ th.pc = "done"
    /\ WellFormed(th.ds)
    /\ th.symbol \in SymbolsInFile(th.ds)

(* C19, as the claim states it: when two threads make their first lookups  *)
(* concurrently, with any interleaving of their statements, each backing   *)
(* file is opened at most once, and no lookup of a symbol that is in the   *)
(* well-formed file returns None.                                          *)
C19_ConcurrentLookupsLoadOnce ==
    /\ \A d \in Datasets : opens[d] <= 1
    /\ \A t \in Threads : DoneWithPresent(threads[t]) => ~ReturnedNone(threads[t])

(* C19, amended: when the first lookups of two threads do not overlap (the *)
(* one returns before the other is called), each backing file is opened at *)
(* most once, and every lookup of a symbol that is in the well-formed file *)
(* returns its value.                                                      *)
C19_LookupsInTurnLoadOnce ==
    (\A t \in Threads : threads[t].alone)
    => /\ \A d \in Datasets : opens[d] <= 1
       /\ \A t \in Threads :
            DoneWithPresent(threads[t]) => threads[t].res = ReturnValue

\* Both threads looked up Fe in the same dataset, one after the other: the
\* file was opened once and both got the value.
C19_Witness ==
    /\ \A t \in Threads :
            /\ DoneWithPresent(threads[t])
            /\ threads[t].alone
            /\ threads[t].ds = ShannonRadiiData
            /\ threads[t].symbol = "Fe"
            /\ threads[t].res = ReturnValue
    /\ opens[ShannonRadiiData] = 1

=============================================================================
